---- MODULE Spec2Model ----
(***************************************************************************)
(* bash_builder: the import resolver of src/main.rs.                       *)
(*                                                                         *)
(* BashFile::resolve is a recursive, single-threaded program.  It is       *)
(* modelled as a state machine over an explicit call stack: one frame per  *)
(* active call of load_dependents or resolve_dependents, one action per    *)
(* call, loop iteration, return or `?` propagation.                        *)
(*                                                                         *)
(* Text.  A String is a sequence of atoms.  An atom stands for a fixed     *)
(* chunk of characters; the chunks are cut so that every boundary the code *)
(* looks at (the end of a directive prefix, a path separator, the final    *)
(* ".ext" of a file name, "\r", "\n") is an atom boundary.                 *)
(*                                                                         *)
(* Paths.  A PathBuf is the sequence of its components as produced by      *)
(* std::path::Components (which is also what Path equality compares); a    *)
(* component is itself a String.                                           *)
(***************************************************************************)
EXTENDS Integers, Sequences, FiniteSets, TLC

CIRCULAR_CUT_OFF == 512

\* bounds of the explored inputs
MaxLines == 3
ShortChain == 3
RefDepth == 8

(* atoms *)
NL  == "\n"
CR  == "\r"
SEP == "/"
CUR_DIR == "."
PARENT_DIR == ".."
COMMENT_PREFIX == "# import "
SOURCE_PREFIX == "source "
SH_EXT == ".sh"
TXT_EXT == ".txt"

Last(s) == s[Len(s)]
Front(s) == SubSeq(s, 1, Len(s) - 1)

(* str::lines, as called by BashFile::lines: split at "\n", a "\r" directly *)
(* before the "\n" belongs to the terminator, the last line needs none.     *)
LineEnds(s) == {i \in 1..Len(s) : s[i] = NL}

NumLines(s) ==
    Cardinality(LineEnds(s)) + (IF Len(s) > 0 /\ Last(s) # NL THEN 1 ELSE 0)

LineEnd(s, k) ==
    IF k <= Cardinality(LineEnds(s))
    THEN CHOOSE i \in LineEnds(s) : Cardinality({j \in LineEnds(s) : j <= i}) = k
    ELSE Len(s) + 1

LineStart(s, k) == IF k = 1 THEN 1 ELSE LineEnd(s, k - 1) + 1

\* mutant: the "\r" before the "\n" is left on the line
KeepCR(l) == l

StripCR(l) == IF Len(l) > 0 /\ Last(l) = CR THEN Front(l) ELSE l

Lines(s) ==
    [k \in 1..NumLines(s) |->
        LET raw == SubSeq(s, LineStart(s, k), LineEnd(s, k) - 1)
        IN  IF k <= Cardinality(LineEnds(s)) THEN StripCR(raw) ELSE raw]

\* [String]::join("\n")
RECURSIVE JoinNL(_)
JoinNL(ls) ==
    IF ls = <<>> THEN <<>>
    ELSE IF Len(ls) = 1 THEN ls[1]
    ELSE ls[1] \o <<NL>> \o JoinNL(Tail(ls))

\* Vec::remove and Vec::insert, zero-based index as in the source
VecRemove(v, n) == SubSeq(v, 1, n) \o SubSeq(v, n + 2, Len(v))
VecInsert(v, n, x) == SubSeq(v, 1, n) \o <<x>> \o SubSeq(v, n + 1, Len(v))

(* std::path *)

\* the pieces of a string between separators, in order
SepAt(s) == {i \in 1..Len(s) : s[i] = SEP}
NumPieces(s) == Cardinality(SepAt(s)) + 1
PieceEnd(s, k) ==
    IF k <= Cardinality(SepAt(s))
    THEN CHOOSE i \in SepAt(s) : Cardinality({j \in SepAt(s) : j <= i}) = k
    ELSE Len(s) + 1
PieceStart(s, k) == IF k = 1 THEN 1 ELSE PieceEnd(s, k - 1) + 1
Pieces(s) == [k \in 1..NumPieces(s) |-> SubSeq(s, PieceStart(s, k), PieceEnd(s, k) - 1)]

\* Path::components: empty pieces vanish, "." survives only in first place,
\* a leading separator is the root component
Normal(piece) == piece # <<>> /\ piece # <<CUR_DIR>>

ComponentsOf(ps) ==
    IF ps[1] = <<CUR_DIR>> THEN <<ps[1]>> \o SelectSeq(Tail(ps), Normal)
    ELSE IF ps[1] = <<>> /\ Len(ps) > 1 THEN << <<SEP>> >> \o SelectSeq(Tail(ps), Normal)
    ELSE SelectSeq(ps, Normal)

Components(s) == ComponentsOf(Pieces(s))

\* Path::is_absolute
IsAbsolute(cs) == cs # <<>> /\ cs[1] = <<SEP>>

\* the components that survive when a path is appended to a non-empty one
NotCurDir(cs) == SelectSeq(cs, Normal)

\* PathBuf::push: an absolute path replaces the buffer
PushComponents(base, cs) ==
    IF IsAbsolute(cs) \/ base = <<>> THEN cs ELSE base \o NotCurDir(cs)

\* PathBuf::push(Path::new(token))
Push(base, token) == PushComponents(base, Components(token))

\* Path::parent
Parent(p) == Front(p)

\* Path::extension() == Some("sh")
HasShExtension(p) ==
    /\ p # <<>>
    /\ Len(Last(p)) >= 2
    /\ Last(Last(p)) = SH_EXT


(* The file system the run reads.  Everything lives below the working      *)
(* directory; a path is looked up component by component as the kernel     *)
(* does: "." stays, ".." goes up, a name must be an entry of a directory.  *)
(* Only the text of tests/main.sh varies between runs.                     *)
VARIABLES config, mainText, pc, stack, ret, reads, stdout, exit

vars == <<config, mainText, pc, stack, ret, reads, stdout, exit>>

ChainDepth == CIRCULAR_CUT_OFF

TESTS == <<"tests">>
BASH == <<"bash">>
MainPath == <<TESTS, <<"main", SH_EXT>>>>
DirPath == <<TESTS, <<"dir", SH_EXT>>>>
ChainStem(k) == "c" \o ToString(k)
ChainPath(k) == <<TESTS, <<ChainStem(k), SH_EXT>>>>

File(text) == [kind |-> "file", contents |-> text]
Dir == [kind |-> "dir"]

SmallDisk ==
    (<<TESTS>> :> Dir) @@
    (<<TESTS, BASH>> :> Dir) @@
    (DirPath :> Dir) @@
    (<<TESTS, <<"util", SH_EXT>>>> :> File(<<"yell() {", NL, "}", NL>>)) @@
    (<<TESTS, <<"empty", SH_EXT>>>> :> File(<<>>)) @@
    (<<TESTS, <<"notes", TXT_EXT>>>> :> File(<<"notes", NL>>)) @@
    (<<TESTS, BASH, <<"util", SH_EXT>>>> :> File(<<"print() {", NL, "}", NL>>)) @@
    (<<TESTS, BASH, <<"lib", SH_EXT>>>> :>
        File(<<COMMENT_PREFIX, CUR_DIR, SEP, "util", SH_EXT, CR, NL,
               SOURCE_PREFIX, "util", SH_EXT, CR, NL,
               "lib">>)) @@
    (<<TESTS, <<"peer", SH_EXT>>>> :>
        File(<<"peer", NL, COMMENT_PREFIX, "main", SH_EXT, NL>>)) @@
    (<<TESTS, BASH, <<"cyc", SH_EXT>>>> :>
        File(<<SOURCE_PREFIX, "main", SH_EXT, NL>>)) @@
    (<<TESTS, BASH, <<"bad", SH_EXT>>>> :>
        File(<<"ok", NL, COMMENT_PREFIX, PARENT_DIR, SEP, "dir", SH_EXT, NL>>))

ChainDisk ==
    [p \in {ChainPath(k) : k \in 0..ChainDepth} |->
        LET k == CHOOSE j \in 0..ChainDepth : ChainPath(j) = p
        IN  IF k < ChainDepth
            THEN File(<<COMMENT_PREFIX, ChainStem(k + 1), SH_EXT, NL>>)
            ELSE File(<<"echo", NL>>)]

Disk == SmallDisk @@ ChainDisk

NoEntry == [kind |-> "none"]

Stored(disk, at) == IF at \in DOMAIN disk THEN disk[at] ELSE NoEntry

Entry(at) == IF at = MainPath THEN File(mainText) ELSE Stored(Disk, at)

\* path resolution from the working directory (at = <<>>)
RECURSIVE Walk(_, _)
Walk(at, rest) ==
    IF rest = <<>> THEN [found |-> TRUE, at |-> at]
    ELSE IF at # <<>> /\ Entry(at).kind # "dir" THEN [found |-> FALSE, at |-> at]
    ELSE IF Head(rest) = <<CUR_DIR>> THEN Walk(at, Tail(rest))
    ELSE IF Head(rest) = <<PARENT_DIR>> THEN
        IF at = <<>> THEN [found |-> FALSE, at |-> at]
        ELSE Walk(Front(at), Tail(rest))
    ELSE IF Head(rest) = <<SEP>> THEN [found |-> FALSE, at |-> at]
    ELSE Walk(Append(at, Head(rest)), Tail(rest))

Walked(w) == IF w.found /\ w.at # <<>> THEN Entry(w.at) ELSE NoEntry

Lookup(path) == Walked(Walk(<<>>, path))

\* Path::exists
Exists(path) == Lookup(path).kind # "none"

(* results *)
NoResult == [kind |-> "none"]
Ok(file) == [kind |-> "ok", file |-> file]
Err(e) == [kind |-> "err", err |-> e]
IO == "Io"
CIRCULAR == "Circular"

(* BashFile::new(path).load(): the unit with its contents, or the Io error *)
read_to_string(path, entry) ==
    IF entry.kind = "file"
    THEN Ok([path |-> path, contents |-> entry.contents,
             dependents |-> <<>>, nested |-> 0])
    ELSE Err(IO)

load(path) == read_to_string(path, Lookup(path))

\* the test on the pushed path: path.exists() && extension == Some("sh")
ValidBashFile(pushed, to_test_file) ==
    IF Exists(pushed) /\ HasShExtension(pushed)
    THEN <<[text |-> to_test_file, path |-> pushed]>>
    ELSE <<>>

\* mutant: the extension of the target is not looked at
to_valid_bash_file_any_extension(path, to_test_file) ==
    LET pushed == Push(path, to_test_file)
    IN  IF Exists(pushed)
        THEN <<[text |-> to_test_file, path |-> pushed]>>
        ELSE <<>>

(* BashFile::to_valid_bash_file: an Option, <<>> or <<[text, path]>> *)
to_valid_bash_file(path, to_test_file) ==
    ValidBashFile(Push(path, to_test_file), to_test_file)

StartsWith(input, prefix) == Len(input) >= 1 /\ input[1] = prefix

ImportStatement(input, line_number, valid, style) ==
    [line_number |-> line_number, line |-> input, text |-> valid.text,
     path |-> valid.path, style |-> style, resolved |-> <<>>]

\* `if let Some(valid) = ... { return Some(ImportStatement { .. }) }`
Statement(input, line_number, valid, style) ==
    IF valid = <<>> THEN <<>>
    ELSE <<ImportStatement(input, line_number, valid[1], style)>>

\* the comment branch comes first; the source branch is tried when the
\* comment branch has not returned
FirstSome(comment, source) == IF comment # <<>> THEN comment ELSE source

\* mutant: both styles are recognised whatever the configuration says
to_import_any_style(input, line_number, path, cfg) ==
    FirstSome(
        IF StartsWith(input, COMMENT_PREFIX)
        THEN Statement(input, line_number,
                       to_valid_bash_file(path, Tail(input)), "Comment")
        ELSE <<>>,
        IF StartsWith(input, SOURCE_PREFIX)
        THEN Statement(input, line_number,
                       to_valid_bash_file(Parent(cfg.root_path), Tail(input)), "Source")
        ELSE <<>>)

(* BashFile::to_import: an Option, <<>> or <<ImportStatement>> *)
to_import(input, line_number, path, cfg) ==
    FirstSome(
        IF cfg.replace_comment /\ StartsWith(input, COMMENT_PREFIX)
        THEN Statement(input, line_number,
                       to_valid_bash_file(path, Tail(input)), "Comment")
        ELSE <<>>,
        IF cfg.replace_source /\ StartsWith(input, SOURCE_PREFIX)
        THEN Statement(input, line_number,
                       to_valid_bash_file(Parent(cfg.root_path), Tail(input)), "Source")
        ELSE <<>>)


\* self.lines().enumerate().filter_map(|(n, line)| to_import(line, n, base, config))
\* before the filter drops the None items: one Option per line
Enumerate(ls, base, cfg) ==
    [i \in 1..Len(ls) |-> to_import(ls[i], i - 1, base, cfg)]

\* mutant: every directive is resolved from the directory of the root file
imports_from_root(self, cfg) ==
    Enumerate(Lines(self.contents), Parent(cfg.root_path), cfg)

(* BashFile::imports: the iterator over the lines, one Option per line *)
imports(self, cfg) ==
    Enumerate(Lines(self.contents), Parent(self.path), cfg)

\* the first position after idx that holds an item, 0 when there is none
FirstSomeAfter(is, idx) ==
    LET hits == {i \in (idx + 1)..Len(is) : is[i] # <<>>}
    IN  IF hits = {} THEN 0 ELSE CHOOSE i \in hits : \A j \in hits : i <= j

\* the position (1-based) of the next item the iterator yields after
\* having consumed idx lines, 0 when it is exhausted
NextImport(self, idx, cfg) == FirstSomeAfter(imports(self, cfg), idx)

\* mutant: the depth is not compared with the cut-off
inner_load_dependents_unbounded(self, nested) ==
    Ok([self EXCEPT !.nested = nested])

(* BashFile::inner_load_dependents up to its call of load_dependents *)
inner_load_dependents(self, nested) ==
    IF nested > CIRCULAR_CUT_OFF THEN Err(CIRCULAR)
    ELSE Ok([self EXCEPT !.nested = nested])

\* mutant: the text is inserted, the directive line is not removed
SubstituteKeepLine(lines, line_number, text) ==
    VecInsert(lines, line_number, text)

(* the two statements that put a flattened child in its parent's lines *)
Substitute(lines, line_number, text) ==
    VecInsert(VecRemove(lines, line_number), line_number, text)

(* impl Display for Error *)
ErrorMessage(e) == IF e = CIRCULAR THEN "Circular import found" ELSE "io error"

(* call frames *)
LoadFrame(self) ==
    [fn |-> "load_dependents", self |-> self, idx |-> 0, deps |-> <<>>, cur |-> <<>>]

ResolveFrame(self) ==
    [fn |-> "resolve_dependents", self |-> [self EXCEPT !.dependents = <<>>],
     lines |-> Lines(self.contents), rest |-> self.dependents,
     cur |-> <<>>, await |-> "none"]

Top == stack[Len(stack)]
Pop == Front(stack)
SetTop(f) == [stack EXCEPT ![Len(stack)] = f]

Scanning ==
    /\ stack # <<>>
    /\ ret = NoResult
    /\ Top.fn = "load_dependents"
    /\ Top.cur = <<>>

NextIdx == NextImport(Top.self, Top.idx, config)
NextStatement == imports(Top.self, config)[NextIdx][1]

(* inputs *)
Word(w) == <<w>>
GeneralLines ==
    { <<COMMENT_PREFIX, "bash", SEP, "lib", SH_EXT>>,
      <<SOURCE_PREFIX, "bash", SEP, "lib", SH_EXT>>,
      <<COMMENT_PREFIX, "notes", TXT_EXT>>,
      <<SOURCE_PREFIX, "missing", SH_EXT>>,
      Word("echo hi") }

GeneralTexts ==
    { JoinNL(ls) \o tail :
        ls \in UNION {[1..n -> GeneralLines] : n \in 0..MaxLines},
        tail \in {<<>>, <<NL>>} }

SpecialTexts ==
    { <<COMMENT_PREFIX, "main", SH_EXT>>,
      <<"echo", NL, SOURCE_PREFIX, CUR_DIR, SEP, "main", SH_EXT, NL>>,
      <<"echo", NL, COMMENT_PREFIX, "peer", SH_EXT, NL>>,
      <<SOURCE_PREFIX, "bash", SEP, "cyc", SH_EXT, NL>>,
      <<COMMENT_PREFIX, "dir", SH_EXT, NL, COMMENT_PREFIX, "main", SH_EXT, NL>>,
      <<COMMENT_PREFIX, "bash", SEP, "bad", SH_EXT, NL>>,
      <<COMMENT_PREFIX, "util", SH_EXT, NL, "echo", NL,
        COMMENT_PREFIX, "empty", SH_EXT, NL, SOURCE_PREFIX, "dir", SH_EXT>>,
      <<"a", CR, NL, "b", CR, NL>> }

Roots == {MainPath, DirPath, ChainPath(0), ChainPath(ChainDepth - ShortChain)}

Init ==
    /\ config \in [root_path : Roots, replace_source : BOOLEAN, replace_comment : BOOLEAN]
    /\ mainText \in IF config.root_path = MainPath
                    THEN GeneralTexts \cup SpecialTexts
                    ELSE {<<>>}
    /\ pc = "start"
    /\ stack = <<>>
    /\ ret = NoResult
    /\ reads = 0
    /\ stdout = <<>>
    /\ exit = "running"

(* BashFile::resolve, first link: BashFile::new(path).load()? and the call  *)
(* of load_dependents on the root                                           *)
ResolveLoad ==
    /\ pc = "start"
    /\ \E file \in {load(config.root_path)} :
          /\ file.kind = "ok"
          /\ stack' = <<LoadFrame(file.file)>>
    /\ pc' = "load_dependents"
    /\ reads' = reads + 1
    /\ UNCHANGED <<config, mainText, ret, stdout, exit>>

ResolveLoadErr ==
    /\ pc = "start"
    /\ \E file \in {load(config.root_path)} :
          /\ file.kind = "err"
          /\ ret' = file
    /\ pc' = "main"
    /\ UNCHANGED <<config, mainText, stack, reads, stdout, exit>>

(* load_dependents, one iteration of the for loop: the iterator yields an   *)
(* import, its file loads and inner_load_dependents calls load_dependents   *)
LoadImport ==
    /\ Scanning
    /\ \E n \in {NextIdx} :
          /\ n # 0
          /\ \E import \in {imports(Top.self, config)[n][1]} :
             \E file \in {load(import.path)} :
                /\ file.kind = "ok"
                /\ \E inner \in {inner_load_dependents(file.file, Top.self.nested + 1)} :
                      /\ inner.kind = "ok"
                      /\ stack' = Append(SetTop([Top EXCEPT !.cur = <<import>>,
                                                             !.idx = n]),
                                         LoadFrame(inner.file))
    /\ reads' = reads + 1
    /\ UNCHANGED <<config, mainText, pc, ret, stdout, exit>>

(* ... its file does not load: `?` returns the Io error *)
LoadImportIoErr ==
    /\ Scanning
    /\ \E n \in {NextIdx} :
          /\ n # 0
          /\ \E file \in {load(imports(Top.self, config)[n][1].path)} :
                /\ file.kind = "err"
                /\ ret' = file
    /\ UNCHANGED <<config, mainText, pc, stack, reads, stdout, exit>>

(* ... inner_load_dependents finds the depth beyond the cut-off *)
LoadImportCircular ==
    /\ Scanning
    /\ \E n \in {NextIdx} :
          /\ n # 0
          /\ \E file \in {load(imports(Top.self, config)[n][1].path)} :
                /\ file.kind = "ok"
                /\ \E inner \in {inner_load_dependents(file.file, Top.self.nested + 1)} :
                      /\ inner.kind = "err"
                      /\ ret' = inner
    /\ reads' = reads + 1
    /\ UNCHANGED <<config, mainText, pc, stack, stdout, exit>>

(* ... the child's load_dependents returned: import.resolved = Some(file);  *)
(* deps.push(import)                                                        *)
LoadImportResolved ==
    /\ stack # <<>>
    /\ Top.fn = "load_dependents"
    /\ Top.cur # <<>>
    /\ ret.kind = "ok"
    /\ stack' = SetTop([Top EXCEPT
                          !.deps = Append(@, [Top.cur[1] EXCEPT !.resolved = <<ret.file>>]),
                          !.cur = <<>>])
    /\ ret' = NoResult
    /\ UNCHANGED <<config, mainText, pc, reads, stdout, exit>>

(* load_dependents, after the loop: self.dependents = deps; Ok(self) *)
LoadDependentsReturn ==
    /\ Scanning
    /\ NextIdx = 0
    /\ ret' = Ok([Top.self EXCEPT !.dependents = Top.deps])
    /\ stack' = Pop
    /\ UNCHANGED <<config, mainText, pc, reads, stdout, exit>>


\* mutant: the frame on top swallows the error and returns its unit
PropagateRecover ==
    /\ stack # <<>>
    /\ ret.kind = "err"
    /\ stack' = Pop
    /\ ret' = Ok(Top.self)
    /\ UNCHANGED <<config, mainText, pc, reads, stdout, exit>>

(* `?`: the frame on top returns the error it was handed *)
Propagate ==
    /\ stack # <<>>
    /\ ret.kind = "err"
    /\ stack' = Pop
    /\ UNCHANGED <<config, mainText, pc, ret, reads, stdout, exit>>

(* BashFile::resolve, last link: .resolve_dependents(config) on the root *)
ResolveDependentsCall ==
    /\ pc = "load_dependents"
    /\ stack = <<>>
    /\ ret.kind = "ok"
    /\ pc' = "resolve_dependents"
    /\ stack' = <<ResolveFrame(ret.file)>>
    /\ ret' = NoResult
    /\ UNCHANGED <<config, mainText, reads, stdout, exit>>

Flattening ==
    /\ stack # <<>>
    /\ Top.fn = "resolve_dependents"

(* resolve_dependents, one iteration of the for loop, up to the call        *)
(* dep.load_dependents(config); an import without a resolved file is        *)
(* skipped                                                                  *)
ResolveImport ==
    /\ Flattening
    /\ ret = NoResult
    /\ Top.cur = <<>>
    /\ Top.rest # <<>>
    /\ LET import == Head(Top.rest)
       IN  IF import.resolved = <<>>
           THEN stack' = SetTop([Top EXCEPT !.rest = Tail(@)])
           ELSE LET dep == [import.resolved[1] EXCEPT !.nested = @ + 1]
                IN  stack' = Append(SetTop([Top EXCEPT
                                       !.rest = Tail(@),
                                       !.cur = <<[import EXCEPT !.resolved = <<>>]>>,
                                       !.await = "load_dependents"]),
                                    LoadFrame(dep))
    /\ UNCHANGED <<config, mainText, pc, ret, reads, stdout, exit>>

(* ... dep.load_dependents(config)? returned the file: call its             *)
(* resolve_dependents                                                       *)
ResolveImportLoaded ==
    /\ Flattening
    /\ Top.await = "load_dependents"
    /\ ret.kind = "ok"
    /\ stack' = Append(SetTop([Top EXCEPT !.await = "resolve_dependents"]),
                       ResolveFrame(ret.file))
    /\ ret' = NoResult
    /\ UNCHANGED <<config, mainText, pc, reads, stdout, exit>>

(* ... .resolve_dependents(config)? returned loaded_dep: lines.remove,      *)
(* lines.insert                                                             *)
ResolveImportSubstitute ==
    /\ Flattening
    /\ Top.await = "resolve_dependents"
    /\ ret.kind = "ok"
    /\ stack' = SetTop([Top EXCEPT
                          !.lines = Substitute(@, Top.cur[1].line_number, ret.file.contents),
                          !.cur = <<>>,
                          !.await = "none"])
    /\ ret' = NoResult
    /\ UNCHANGED <<config, mainText, pc, reads, stdout, exit>>

(* resolve_dependents, after the loop: the lines are joined, the            *)
(* dependents dropped                                                       *)
ResolveDependentsReturn ==
    /\ Flattening
    /\ ret = NoResult
    /\ Top.cur = <<>>
    /\ Top.rest = <<>>
    /\ ret' = Ok([Top.self EXCEPT !.contents = JoinNL(Top.lines), !.dependents = <<>>])
    /\ stack' = Pop
    /\ UNCHANGED <<config, mainText, pc, reads, stdout, exit>>

(* inner_main and main: println!("{}", bash_file.to_string()) *)
MainPrint ==
    /\ pc = "resolve_dependents"
    /\ stack = <<>>
    /\ ret.kind = "ok"
    /\ stdout' = ret.file.contents \o <<NL>>
    /\ exit' = "success"
    /\ pc' = "done"
    /\ UNCHANGED <<config, mainText, stack, ret, reads>>

(* main: Err(e.to_string()), nothing is printed *)
MainErr ==
    /\ pc # "done"
    /\ stack = <<>>
    /\ ret.kind = "err"
    /\ exit' = ErrorMessage(ret.err)
    /\ pc' = "done"
    /\ UNCHANGED <<config, mainText, stack, ret, reads, stdout>>

Next ==
    \/ ResolveLoad
    \/ ResolveLoadErr
    \/ LoadImport
    \/ LoadImportIoErr
    \/ LoadImportCircular
    \/ LoadImportResolved
    \/ LoadDependentsReturn
    \/ Propagate
    \/ ResolveDependentsCall
    \/ ResolveImport
    \/ ResolveImportLoaded
    \/ ResolveImportSubstitute
    \/ ResolveDependentsReturn
    \/ MainPrint
    \/ MainErr

Spec == Init /\ [][Next]_vars

TypeOK ==
    /\ pc \in {"start", "load_dependents", "resolve_dependents", "main", "done"}
    /\ ret.kind \in {"none", "ok", "err"}
    /\ reads \in Nat


(* ---------------------------------------------------------------------- *)
(* Reference notions the properties are stated with.  They are computed   *)
(* from the file system, not from the run.                                *)
(* ---------------------------------------------------------------------- *)

\* the unit as it is right after load()
Loaded(path) == [path |-> path, contents |-> Lookup(path).contents,
                 dependents |-> <<>>, nested |-> 0]

\* the text of a file with every recognised directive line replaced, in
\* place, by the text of its target treated the same way
RECURSIVE Flat(_, _)
Flat(path, fuel) ==
    LET ls == Lines(Lookup(path).contents)
        ds == imports(Loaded(path), config)
    IN  JoinNL([i \in 1..Len(ls) |->
                  IF ds[i] = <<>> \/ fuel = 0 THEN ls[i]
                  ELSE Flat(ds[i][1].path, fuel - 1)])

\* a value has just come back from resolve_dependents
FlatReturned ==
    /\ ret.kind = "ok"
    /\ \/ stack = <<>> /\ pc \in {"resolve_dependents", "done"}
       \/ stack # <<>> /\ Top.fn = "resolve_dependents" /\ Top.await = "resolve_dependents"

\* the lines of the file the frame on top works on, as they were loaded
TopOriginal == Lines(Lookup(Top.self.path).contents)

RootLines == Lines(Lookup(config.root_path).contents)
RootImports == imports(Loaded(config.root_path), config)

\* the file a path names
Ident(path) == Walk(<<>>, path).at

\* the files the directives of a file point at
Succ(file) ==
    IF Entry(file).kind # "file" THEN {}
    ELSE LET ds == imports([path |-> file, contents |-> Entry(file).contents], config)
         IN  {Ident(ds[i][1].path) : i \in {j \in 1..Len(ds) : ds[j] # <<>>}}

RECURSIVE Within(_, _)
Within(files, hops) ==
    IF hops = 0 THEN {}
    ELSE LET next == UNION {Succ(f) : f \in files}
         IN  next \cup Within(next, hops - 1)

\* the root is reached again from itself (by a cycle of at most RefDepth files)
RootImportsItself ==
    Ident(config.root_path) \in Within({Ident(config.root_path)}, RefDepth)

\* the number of File Units of the inclusion tree below and including path
RECURSIVE TreeNodes(_, _)
RECURSIVE TreeNodesFrom(_, _, _)
TreeNodesFrom(ds, i, fuel) ==
    IF i > Len(ds) THEN 0
    ELSE (IF ds[i] = <<>> THEN 0 ELSE TreeNodes(ds[i][1].path, fuel - 1))
         + TreeNodesFrom(ds, i + 1, fuel)
TreeNodes(path, fuel) ==
    IF fuel = 0 THEN 1
    ELSE 1 + TreeNodesFrom(imports(Loaded(path), config), 1, fuel)


(* ---------------------------------------------------------------------- *)
(* Properties                                                             *)
(* The frames below the top of the stack do not change until they are on  *)
(* top again, so a property of every frame is checked on the frame on top.*)
(* ---------------------------------------------------------------------- *)

\* C1: whatever resolve_dependents returns, at the root and at every depth,
\* is the file's own line sequence with the line of each recognised
\* directive replaced in place by the flattened text of its target, every
\* other line kept at its position, joined with "\n"; what main prints is
\* that text of the root.
C1_FlattenInPlace ==
    /\ FlatReturned => ret.file.contents = Flat(ret.file.path, RefDepth)
    /\ (pc = "done" /\ exit = "success") =>
            stdout = Flat(config.root_path, RefDepth) \o <<NL>>

\* a finished run whose root has a plain line between two directives, the
\* first of which has directives of its own
C1_Witness ==
    /\ pc = "done"
    /\ exit = "success"
    /\ \E i, j, k \in 1..Len(RootLines) :
          /\ i < j /\ j < k
          /\ RootImports[i] # <<>> /\ RootImports[j] = <<>> /\ RootImports[k] # <<>>
          /\ \E n \in 1..Len(imports(Loaded(RootImports[i][1].path), config)) :
                imports(Loaded(RootImports[i][1].path), config)[n] # <<>>

\* C9: the depth counter of the File Unit a call works on equals the unit's
\* distance from the root, which is the number of frames below its own.
C9_NestedIsDistance ==
    stack # <<>> => Top.self.nested = Len(stack) - 1

\* C10: a successful run has read exactly one file per File Unit of the
\* inclusion tree.
C10_OneReadPerUnit ==
    (pc = "done" /\ exit = "success") => reads = TreeNodes(config.root_path, RefDepth)


\* a line that wears the prefix of a style the configuration switches off
Disabled(l) ==
    \/ ~config.replace_comment /\ StartsWith(l, COMMENT_PREFIX)
    \/ ~config.replace_source /\ StartsWith(l, SOURCE_PREFIX)

Occurs(l, text) == \E j \in 1..NumLines(text) : Lines(text)[j] = l

\* C2: a line with the prefix of a disabled style is never made an import
\* and keeps its slot untouched while its file is flattened, at every depth;
\* it is a line of the flattened text of its file and of what main prints.
C2_StyleIsolation ==
    /\ (stack # <<>> /\ Top.fn = "load_dependents") =>
          /\ \A n \in 1..Len(Top.deps) : ~Disabled(Top.deps[n].line)
          /\ Top.cur # <<>> => ~Disabled(Top.cur[1].line)
    /\ (stack # <<>> /\ Top.fn = "resolve_dependents") =>
          /\ Len(Top.lines) = Len(TopOriginal)
          /\ \A i \in 1..Len(TopOriginal) :
                Disabled(TopOriginal[i]) => Top.lines[i] = TopOriginal[i]
    /\ FlatReturned =>
          LET orig == Lines(Lookup(ret.file.path).contents)
          IN  \A i \in 1..Len(orig) :
                Disabled(orig[i]) => Occurs(orig[i], ret.file.contents)
    /\ (pc = "done" /\ exit = "success") =>
          /\ \A i \in 1..Len(RootLines) :
                Disabled(RootLines[i]) => Occurs(RootLines[i], stdout)
          /\ \A i \in 1..Len(RootLines) :
                RootImports[i] # <<>> =>
                   LET sub == Lines(Lookup(RootImports[i][1].path).contents)
                   IN  \A n \in 1..Len(sub) :
                         Disabled(sub[n]) => Occurs(sub[n], stdout)

\* a finished run with only the source style on, whose root includes a file
\* that has a "# import " line naming an existing .sh file
C2_Witness ==
    /\ pc = "done"
    /\ exit = "success"
    /\ ~config.replace_comment
    /\ \E i \in 1..Len(RootLines) :
          /\ RootImports[i] # <<>>
          /\ LET target == RootImports[i][1].path
                 sub == Lines(Lookup(target).contents)
             IN  \E n \in 1..Len(sub) :
                   /\ StartsWith(sub[n], COMMENT_PREFIX)
                   /\ Lookup(Push(Parent(target), Tail(sub[n]))).kind = "file"
                   /\ Occurs(sub[n], stdout)

\* C3: the file a call works on for a directive is the one at the path made
\* of the parent directory of the including file (comment style) or of the
\* root file (source style), joined with what follows the prefix.
C3_RelativeBase ==
    (Len(stack) >= 2 /\ stack[Len(stack) - 1].cur # <<>>) =>
        LET parent == stack[Len(stack) - 1]
            d == parent.cur[1]
            line == Lines(parent.self.contents)[d.line_number + 1]
            base == IF d.style = "Comment" THEN Parent(parent.self.path)
                    ELSE Parent(config.root_path)
        IN  /\ d.line = line
            /\ d.text = Tail(line)
            /\ line[1] = (IF d.style = "Comment" THEN COMMENT_PREFIX ELSE SOURCE_PREFIX)
            /\ d.path = Push(base, Tail(line))
            /\ Top.self.path = Push(base, Tail(line))
            /\ Top.self.contents = Lookup(Push(base, Tail(line))).contents

\* inside tests/bash/lib.sh, with both styles on: the comment directive has
\* been resolved below tests/bash, the source directive below tests
C3_Witness ==
    /\ Len(stack) >= 3
    /\ LET parent == stack[Len(stack) - 1]
       IN  /\ parent.fn = "load_dependents"
           /\ parent.cur # <<>>
           /\ parent.cur[1].style = "Source"
           /\ Parent(parent.self.path) # Parent(config.root_path)
           /\ \E n \in 1..Len(parent.deps) :
                 /\ parent.deps[n].style = "Comment"
                 /\ Parent(parent.deps[n].path) = Parent(parent.self.path)
           /\ Parent(Top.self.path) = Parent(config.root_path)

CircularMessage == ErrorMessage(CIRCULAR)
IoMessage == ErrorMessage(IO)

\* C4 as claimed: a root that imports itself ends in Error::Circular.
C4_AlwaysCircular ==
    (pc = "done" /\ RootImportsItself) => (exit = CircularMessage /\ stdout = <<>>)

\* C4 as amended: the calls never nest deeper than the cut-off allows, and a
\* root that imports itself ends in an error with nothing printed:
\* Error::Circular, or Error::Io when some directive points at a file that
\* cannot be read.
C4_CircularOrIo ==
    /\ Len(stack) <= CIRCULAR_CUT_OFF + 1
    /\ (pc = "done" /\ RootImportsItself) =>
          /\ stdout = <<>>
          /\ \/ exit = CircularMessage
             \/ /\ exit = IoMessage
                /\ \E f \in Within({Ident(config.root_path)}, RefDepth) :
                      Entry(f).kind # "file"

\* a finished run whose root comes back to itself through another file
C4_Witness ==
    /\ pc = "done"
    /\ RootImportsItself
    /\ Ident(config.root_path) \notin Succ(Ident(config.root_path))
    /\ exit = CircularMessage
    /\ reads > CIRCULAR_CUT_OFF


\* the longest chain of directives below a file
ChainIndex == [p \in DOMAIN ChainDisk |-> CHOOSE k \in 0..ChainDepth : ChainPath(k) = p]

SetMax(S) == CHOOSE x \in S : \A y \in S : y <= x

RECURSIVE Height(_, _)
Height(file, fuel) ==
    IF fuel = 0 \/ Succ(file) = {} THEN 0
    ELSE 1 + SetMax({Height(q, fuel - 1) : q \in Succ(file)})

Rank(file) ==
    IF file \in DOMAIN ChainDisk THEN ChainDepth - ChainIndex[file]
    ELSE Height(file, RefDepth)

AllFiles == {f \in DOMAIN Disk \cup {MainPath} : Entry(f).kind = "file"}

\* no file of the disk includes itself and no chain of directives is longer
\* than the cut-off: Rank falls along every directive and starts at or
\* below the cut-off
InclusionWithinCutOff ==
    \A f \in AllFiles :
        /\ Rank(f) <= CIRCULAR_CUT_OFF
        /\ \A q \in Succ(f) : Rank(q) < Rank(f)

\* the error has just been raised by the call on top
Raised ==
    /\ ret.kind = "err"
    /\ stack # <<>>
    /\ Top.fn = "load_dependents"
    /\ Top.cur = <<>>

\* C5: Error::Circular is raised only if some file includes itself or some
\* chain of directives is longer than the cut-off.
C5_CircularOnlyBeyondCutOff ==
    (Raised /\ ret.err = CIRCULAR) => ~InclusionWithinCutOff

\* a directive line of an enabled style whose target is missing or not .sh
InvalidTarget(l, base) ==
    \/ Lookup(Push(base, Tail(l))).kind = "none"
    \/ Last(Last(Push(base, Tail(l)))) # SH_EXT

Dead(l, path) ==
    \/ /\ config.replace_comment
       /\ StartsWith(l, COMMENT_PREFIX)
       /\ InvalidTarget(l, Parent(path))
    \/ /\ config.replace_source
       /\ StartsWith(l, SOURCE_PREFIX)
       /\ InvalidTarget(l, Parent(config.root_path))

Plain(l) ==
    /\ ~(config.replace_comment /\ StartsWith(l, COMMENT_PREFIX))
    /\ ~(config.replace_source /\ StartsWith(l, SOURCE_PREFIX))

\* C6: a line with an enabled prefix and an invalid target is never made an
\* import, keeps its slot untouched while its file is flattened, is a line
\* of the flattened text, and raises nothing: a root whose directives are
\* all of this kind is printed line by line.
C6_InvalidTargetPassthrough ==
    /\ (stack # <<>> /\ Top.fn = "load_dependents") =>
          /\ \A n \in 1..Len(Top.deps) : ~Dead(Top.deps[n].line, Top.self.path)
          /\ Top.cur # <<>> => ~Dead(Top.cur[1].line, Top.self.path)
    /\ (stack # <<>> /\ Top.fn = "resolve_dependents") =>
          \A i \in 1..Len(TopOriginal) :
              Dead(TopOriginal[i], Top.self.path) =>
                  (i <= Len(Top.lines) /\ Top.lines[i] = TopOriginal[i])
    /\ FlatReturned =>
          LET orig == Lines(Lookup(ret.file.path).contents)
          IN  \A i \in 1..Len(orig) :
                Dead(orig[i], ret.file.path) => Occurs(orig[i], ret.file.contents)
    /\ (/\ pc = "done"
        /\ Lookup(config.root_path).kind = "file"
        /\ \A i \in 1..Len(RootLines) :
              Plain(RootLines[i]) \/ Dead(RootLines[i], config.root_path)) =>
          /\ exit = "success"
          /\ stdout = JoinNL(RootLines) \o <<NL>>

\* a finished run whose root has a directive to a file that is not .sh, one
\* to a file that does not exist, and one that is replaced
C6_Witness ==
    /\ pc = "done"
    /\ exit = "success"
    /\ \E i, j, k \in 1..Len(RootLines) :
          /\ Dead(RootLines[i], config.root_path)
          /\ Lookup(Push(Parent(config.root_path), Tail(RootLines[i]))).kind = "file"
          /\ Dead(RootLines[j], config.root_path)
          /\ Lookup(Push(Parent(config.root_path), Tail(RootLines[j]))).kind = "none"
          /\ RootImports[k] # <<>>
          /\ Occurs(RootLines[i], stdout)
          /\ Occurs(RootLines[j], stdout)

\* the text with every "\r\n" made "\n" and without its last "\n"
NormalizeEOL(s) ==
    LET keep == {i \in 1..Len(s) :
                    /\ ~(s[i] = CR /\ i < Len(s) /\ s[i + 1] = NL)
                    /\ ~(s[i] = NL /\ i = Len(s))}
        nth(n) == CHOOSE i \in keep : Cardinality({j \in keep : j <= i}) = n
    IN  [n \in 1..Cardinality(keep) |-> s[nth(n)]]

NoImports(path) ==
    \A i \in 1..Len(imports(Loaded(path), config)) :
        imports(Loaded(path), config)[i] = <<>>

\* C7 as claimed: flattening a unit without imports returns the string that
\* was loaded.
C7_Unchanged ==
    (FlatReturned /\ NoImports(ret.file.path)) =>
        ret.file.contents = Lookup(ret.file.path).contents

\* C7 as amended: flattening a unit without imports returns the loaded
\* string with every "\r\n" turned into "\n" and without its final "\n";
\* it is the loaded string when that has no "\r" and does not end in "\n".
C7_UnchangedUpToLineEndings ==
    (FlatReturned /\ NoImports(ret.file.path)) =>
        LET loaded == Lookup(ret.file.path).contents
        IN  /\ ret.file.contents = NormalizeEOL(loaded)
            /\ ((\A i \in 1..Len(loaded) : loaded[i] # CR)
                  /\ (loaded = <<>> \/ Last(loaded) # NL))
                 => ret.file.contents = loaded

\* a root without imports, written with "\r\n" line ends, has been flattened
C7_Witness ==
    /\ FlatReturned
    /\ stack = <<>>
    /\ NoImports(ret.file.path)
    /\ \E i \in 1..Len(mainText) : mainText[i] = CR
    /\ ret.file.contents # mainText
    /\ ret.file.contents # <<>>

====
